---- MODULE Spec2Model ----
(***************************************************************************)
(* Voucher service (src/src/server.js): the vouchers table, the            *)
(* voucher_redemptions table, the POST /vouchers/:code/redeem handler and  *)
(* the administration handlers POST /vouchers, PUT and DELETE              *)
(* /vouchers/:id, one action per awaited storage call of a handler, so     *)
(* that concurrent requests interleave exactly where the event loop lets   *)
(* them.                                                                   *)
(***************************************************************************)
EXTENDS Integers, Sequences, FiniteSets, TLC

\* ------------------------------------------------------------------ bounds
NumReqs == 2            \* redemption requests that arrive
MaxTime == 2            \* the clock runs 0..MaxTime
MaxOrder == 2           \* order_amount in the request body ranges over 0..MaxOrder
MaxRedemptions == 2     \* max_total_redemptions of the seed voucher ranges over 1..MaxRedemptions
NumAdmins == 2          \* administration requests that arrive

\* ------------------------------------------------------------------ values
\* a nullable column holding NULL / a JS null or undefined
Null == 0 - 1

Reqs == 1..NumReqs
Admins == 1..NumAdmins
Users == {"u1", "u2"}
Roles == {"USER", "ADMIN"}
\* "PROMO" is the code of the seed voucher, "NOCODE" a code no voucher has
Codes == {"PROMO", "NOCODE"}

\* a request body with no field set
NoBody == [f \in {} |-> Null]

\* result of .single() when not exactly one row matches: data is null
NoVoucher ==
  [id |-> Null, code |-> "", discount_type |-> "", discount_value |-> 0,
   max_discount_amount |-> Null, min_order_amount |-> 0,
   max_total_redemptions |-> 0, total_redeemed |-> 0,
   start_at |-> Null, end_at |-> Null, is_active |-> FALSE]

VARIABLES
  vouchers,      \* table vouchers: a set of rows
  ledger,        \* table voucher_redemptions: rows in insertion order
  ledgerUnique,  \* whether the table carries UNIQUE (voucher_id, user_id)
  now,           \* the wall clock read by new Date()
  req,           \* per request: position in the handler, inputs, locals, response
  gh,            \* per request: history of what its storage calls did
  adm            \* per administration request: position, inputs, response

vars == <<vouchers, ledger, ledgerUnique, now, req, gh, adm>>

\* ------------------------------------------------------------------ storage
\* .single(): the row when exactly one matches, otherwise no data
SingleVoucher(S) == IF Cardinality(S) = 1 THEN CHOOSE v \in S : TRUE ELSE NoVoucher

\* supabase.from("vouchers").select("*").eq("code", code).single()
GetByCode(tbl, code) == SingleVoucher({v \in tbl : v.code = code})

\* rows of voucher_redemptions with .eq("voucher_id", vid).eq("user_id", uid)
RedemptionsOf(led, vid, uid) ==
  {i \in 1..Len(led) : led[i].voucher_id = vid /\ led[i].user_id = uid}

\* ... .single(): data is a row only when exactly one row matches
FindByVoucherAndUser(led, vid, uid) == Cardinality(RedemptionsOf(led, vid, uid)) = 1

\* (variant: the update adds 1 to the stored counter, whatever value was read)
ConditionalIncrementInPlace(tbl, vid, expected, newCount) ==
  {IF v.id = vid THEN [v EXCEPT !.total_redeemed = @ + 1] ELSE v : v \in tbl}

\* UPDATE vouchers SET total_redeemed = newCount WHERE id = vid AND total_redeemed = expected
ConditionalIncrement(tbl, vid, expected, newCount) ==
  {IF v.id = vid /\ v.total_redeemed = expected
     THEN [v EXCEPT !.total_redeemed = newCount] ELSE v : v \in tbl}

\* rows the conditional update matches (PostgREST reports no error when it is 0)
MatchedRows(tbl, vid, expected) ==
  Cardinality({v \in tbl : v.id = vid /\ v.total_redeemed = expected})

\* (variant: the compensating write stores the incremented value, not the one read)
RollbackWriteStoresNewTotal(tbl, vid, oldCount) ==
  {IF v.id = vid THEN [v EXCEPT !.total_redeemed = oldCount + 1] ELSE v : v \in tbl}

\* UPDATE vouchers SET total_redeemed = oldCount WHERE id = vid
RollbackWrite(tbl, vid, oldCount) ==
  {IF v.id = vid THEN [v EXCEPT !.total_redeemed = oldCount] ELSE v : v \in tbl}

\* the row the handler inserts into voucher_redemptions
RedemptionRow(vid, uid, amount, discount, final) ==
  [voucher_id |-> vid, user_id |-> uid, order_amount |-> amount,
   discount_amount |-> discount, final_amount |-> final, status |-> "SUCCESS"]

\* the insert is refused by the table's uniqueness constraint, when it has one
UniqueViolation(led, vid, uid) ==
  ledgerUnique /\ RedemptionsOf(led, vid, uid) # {}

\* voucher_redemptions.voucher_id is a foreign key to vouchers: a row for a voucher
\* that is gone is refused
ForeignKeyViolation(tbl, vid) == \A v \in tbl : v.id # vid

\* total_redeemed of the voucher with this id (0 when the row is gone)
CounterIn(tbl, vid) ==
  IF \E v \in tbl : v.id = vid
    THEN (CHOOSE v \in tbl : v.id = vid).total_redeemed ELSE 0

\* ------------------------------------------------------------------ validation chain
IsInactive(v) == ~v.is_active
IsNotStarted(v, t) == v.start_at # Null /\ t < v.start_at
IsExpired(v, t) == v.end_at # Null /\ t > v.end_at
\* (variant: the capacity check compares with > instead of >=)
IsExhaustedStrict(v) == v.total_redeemed > v.max_total_redemptions

IsExhausted(v) == v.total_redeemed >= v.max_total_redemptions
IsBelowMinimum(v, amount) == amount < v.min_order_amount

\* the checks run on the fetched voucher, in the handler's order
ValidateVoucher(v, t, amount) ==
  IF IsInactive(v) THEN "Inactive"
  ELSE IF IsNotStarted(v, t) THEN "NotStarted"
  ELSE IF IsExpired(v, t) THEN "Expired"
  ELSE IF IsExhausted(v) THEN "Exhausted"
  ELSE IF IsBelowMinimum(v, amount) THEN "BelowMinimum"
  ELSE "OK"

\* ------------------------------------------------------------------ discount
ComputeDiscount(v, amount) ==
  IF v.discount_type = "PERCENT"
    THEN LET d == (amount * v.discount_value) \div 100
         IN  IF v.max_discount_amount # Null /\ v.max_discount_amount # 0
                /\ d > v.max_discount_amount
               THEN v.max_discount_amount ELSE d
    ELSE IF v.discount_value > amount THEN amount ELSE v.discount_value

\* ------------------------------------------------------------------ requests
IdleReq ==
  [code |-> "", order_amount |-> 0, discount_amount |-> 0, final_amount |-> 0,
   pc |-> "idle", role |-> "", user |-> "", voucher |-> NoVoucher,
   response |-> ""]

IdleGh ==
  [fetches |-> 0,       \* voucher fetches the request made
   matched |-> Null,    \* rows its conditional increment matched
   inserted |-> 0,      \* rows it added to the ledger
   net |-> 0,           \* sum of the changes its writes made to total_redeemed
   faults |-> {},       \* its storage writes that returned an error
   logged |-> {},       \* its storage errors that the handler wrote to console.error
   preCount |-> Null,   \* while in flight: total_redeemed and ledger length when
   preLen |-> Null,     \* it fetched the voucher
   stale |-> FALSE,     \* while it holds a voucher it has read and not yet written:
                        \* another request's increment has taken effect since the read
   overlap |-> FALSE]   \* another request was in flight while it was

\* an administration request before it arrives
IdleAdm ==
  [id |-> Null, pc |-> "idle", role |-> "", response |-> "", op |-> "", body |-> NoBody]

InFlight(q) == q.pc \notin {"idle", "done"}

\* the handler returns: its locals are gone, the caller and the response stay
Respond(r, resp) ==
  [req EXCEPT ![r] = [IdleReq EXCEPT !.pc = "done", !.response = resp,
                        !.role = req[r].role, !.user = req[r].user]]

\* history after a step: whether request r overlapped another request in flight;
\* what it saw at its fetch is kept only while it is in flight
History(g) ==
  [r \in Reqs |-> [g[r] EXCEPT
     !.overlap = @ \/ (InFlight(req'[r]) /\ \E q \in Reqs \ {r} : InFlight(req'[q])),
     !.preCount = IF InFlight(req'[r]) THEN @ ELSE Null,
     !.preLen = IF InFlight(req'[r]) THEN @ ELSE Null,
     !.stale = IF req'[r].pc \in {"lookup", "update"} THEN @ ELSE FALSE]]

\* history when request r's increment matched n rows of voucher vid: the requests
\* that hold an earlier read of that voucher now hold a stale one
Incremented(g, r, vid, n) ==
  [q \in Reqs |->
     IF q = r THEN [g[q] EXCEPT !.matched = n, !.net = @ + n]
     ELSE IF n > 0 /\ req[q].pc \in {"lookup", "update"} /\ req[q].voucher.id = vid
       THEN [g[q] EXCEPT !.stale = TRUE]
     ELSE g[q]]

\* seed catalog rows: a voucher as POST /vouchers (and PUT, for is_active) leaves it
SeedRows(discounts, minimums, limits, windows, actives) ==
  {[id |-> 1, code |-> "PROMO", discount_type |-> d[1], discount_value |-> d[2],
    max_discount_amount |-> Null, min_order_amount |-> mo,
    max_total_redemptions |-> mx, total_redeemed |-> 0,
    start_at |-> w[1], end_at |-> w[2], is_active |-> a] :
     d \in discounts, mo \in minimums, mx \in limits, w \in windows, a \in actives}

\* the catalog of the concurrency runs: the voucher's limit and activity vary; it expires after time 1
SeedVouchers ==
  SeedRows({<<"PERCENT", 50>>}, {MaxOrder}, 1..MaxRedemptions,
           {<<Null, 1>>}, BOOLEAN)

Init ==
  /\ \E v \in SeedVouchers : vouchers = {v}
  /\ ledger = <<>>
  /\ ledgerUnique \in BOOLEAN
  /\ now = 0
  /\ req = [r \in Reqs |-> IdleReq]
  /\ gh = [r \in Reqs |-> IdleGh]
  /\ adm = [a \in Admins |-> IdleAdm]

\* (variant: the redemption route lets every authenticated caller through)
RequireUserAnyRole(role) == TRUE

\* requireUser: only role USER passes
RequireUser(role) == role = "USER"

\* requireAdmin: only role ADMIN passes
RequireAdmin(role) == role = "ADMIN"

\* a request arrives: requireUser, then redeemVoucherSchema.safeParse
StartWith(r, roles, codes, amounts) ==
  /\ req[r].pc = "idle"
  /\ IF r = 1 THEN TRUE ELSE req[r - 1].pc # "idle"   \* requests are numbered in arrival order
  /\ \E role \in roles, uid \in Users, code \in codes, amount \in amounts :
       req' = IF ~RequireUser(role)
                THEN [req EXCEPT ![r] = [IdleReq EXCEPT !.pc = "done", !.role = role,
                                           !.response = "Forbidden"]]
              ELSE IF amount <= 0
                THEN [req EXCEPT ![r] = [IdleReq EXCEPT !.pc = "done", !.role = role,
                                           !.response = "ValidationError"]]
              ELSE [req EXCEPT ![r] = [IdleReq EXCEPT !.pc = "fetch", !.role = role,
                                         !.user = uid, !.code = code,
                                         !.order_amount = amount]]
  /\ gh' = History(gh)
  /\ UNCHANGED <<vouchers, ledger, ledgerUnique, now, adm>>

\* a USER redeems the seed voucher with a well-formed body
Start(r) == StartWith(r, {"USER"}, {"PROMO"}, 1..MaxOrder)

\* (variant: the fetch counts the redemption before the checks have run)
FetchVoucherCountsFirst(r) ==
  /\ req[r].pc = "fetch"
  /\ \/ \* voucherError: 404 before the clock is read
        /\ req' = Respond(r, "NotFound")
        /\ gh' = History([gh EXCEPT ![r].fetches = @ + 1])
        /\ UNCHANGED <<now, vouchers>>
     \/ \E t \in now..MaxTime :
          LET v == GetByCode(vouchers, req[r].code)
              e == ValidateVoucher(v, t, req[r].order_amount)
          IN  /\ now' = t
              /\ req' = IF v = NoVoucher THEN Respond(r, "NotFound")
                        ELSE IF e # "OK" THEN Respond(r, e)
                        ELSE [req EXCEPT ![r].pc = "lookup", ![r].voucher = v]
              /\ gh' = History([gh EXCEPT ![r].fetches = @ + 1,
                                          ![r].preCount = v.total_redeemed,
                                          ![r].preLen = Len(ledger)])
              /\ vouchers' = ConditionalIncrement(vouchers, v.id, v.total_redeemed,
                                                  v.total_redeemed + 1)
  /\ UNCHANGED <<ledger, ledgerUnique, adm>>

\* await select voucher by code, then new Date() and the checks on the voucher;
\* the clock has moved on by some amount since it was last read
FetchVoucher(r) ==
  /\ req[r].pc = "fetch"
  /\ \/ \* voucherError: 404 before the clock is read
        /\ req' = Respond(r, "NotFound")
        /\ gh' = History([gh EXCEPT ![r].fetches = @ + 1])
        /\ UNCHANGED now
     \/ \E t \in now..MaxTime :
          LET v == GetByCode(vouchers, req[r].code)
              e == ValidateVoucher(v, t, req[r].order_amount)
          IN  /\ now' = t
              /\ req' = IF v = NoVoucher THEN Respond(r, "NotFound")
                        ELSE IF e # "OK" THEN Respond(r, e)
                        ELSE [req EXCEPT ![r].pc = "lookup", ![r].voucher = v]
              /\ gh' = History([gh EXCEPT ![r].fetches = @ + 1,
                                          ![r].preCount = v.total_redeemed,
                                          ![r].preLen = Len(ledger)])
  /\ UNCHANGED <<vouchers, ledger, ledgerUnique, adm>>

\* await select existing redemption of (voucher, user), then the discount; only
\* data is taken from the result, so a failed select reads as "no redemption"
CheckExisting(r) ==
  /\ req[r].pc = "lookup"
  /\ \E fault \in BOOLEAN :
       LET q == req[r]
           d == ComputeDiscount(q.voucher, q.order_amount)
       IN  /\ req' = IF ~fault /\ FindByVoucherAndUser(ledger, q.voucher.id, q.user)
                       THEN Respond(r, "AlreadyRedeemed")
                       ELSE [req EXCEPT ![r].pc = "update", ![r].discount_amount = d,
                                        ![r].final_amount = q.order_amount - d]
           /\ gh' = History(gh)
  /\ UNCHANGED <<vouchers, ledger, ledgerUnique, now, adm>>

\* (variant: the handler repeats the same update until it matches a row)
UpdateCounterRepeats(r) ==
  /\ req[r].pc = "update"
  /\ \E fault \in BOOLEAN :
       LET v == req[r].voucher
           n == MatchedRows(vouchers, v.id, v.total_redeemed)
       IN  IF fault \/ n = 0
             THEN UNCHANGED <<vouchers, req, gh>>
             ELSE /\ vouchers' = ConditionalIncrement(vouchers, v.id, v.total_redeemed,
                                                      v.total_redeemed + 1)
                  /\ req' = [req EXCEPT ![r].pc = "insert"]
                  /\ gh' = History(Incremented(gh, r, v.id, n))
  /\ UNCHANGED <<ledger, ledgerUnique, now, adm>>

\* await update vouchers set total_redeemed = read + 1 where id and total_redeemed = read;
\* updateError is set only when the call itself fails, not when it matches no row
UpdateCounter(r) ==
  /\ req[r].pc = "update"
  /\ \E fault \in BOOLEAN :
       LET v == req[r].voucher
           n == MatchedRows(vouchers, v.id, v.total_redeemed)
       IN  IF fault
             THEN \* 500, "Gagal memproses redeem, silakan coba lagi"
                  /\ req' = Respond(r, "ConcurrentConflict")
                  /\ gh' = History([gh EXCEPT ![r].faults = @ \cup {"update"},
                                              ![r].logged = @ \cup {"update"}])
                  /\ UNCHANGED vouchers
             ELSE /\ vouchers' = ConditionalIncrement(vouchers, v.id, v.total_redeemed,
                                                      v.total_redeemed + 1)
                  /\ req' = [req EXCEPT ![r].pc = "insert"]
                  /\ gh' = History(Incremented(gh, r, v.id, n))
  /\ UNCHANGED <<ledger, ledgerUnique, now, adm>>

\* await insert into voucher_redemptions; redemptionError on a storage fault or a
\* refusal by the table, otherwise 200 with the stored row
InsertRedemption(r) ==
  /\ req[r].pc = "insert"
  /\ \E fault \in BOOLEAN :
       LET q == req[r]
           unique == UniqueViolation(ledger, q.voucher.id, q.user)
           refused == unique \/ ForeignKeyViolation(vouchers, q.voucher.id)
       IN  IF fault \/ refused
             THEN /\ req' = [req EXCEPT ![r].pc = "rollback"]
                  /\ gh' = History([gh EXCEPT ![r].faults =
                                      @ \cup {IF fault THEN "insert"
                                              ELSE IF unique THEN "unique" ELSE "fk"},
                                              ![r].logged = @ \cup {"insert"}])
                  /\ UNCHANGED ledger
             ELSE /\ ledger' = Append(ledger, RedemptionRow(q.voucher.id, q.user,
                                        q.order_amount, q.discount_amount, q.final_amount))
                  /\ req' = Respond(r, "Success")
                  /\ gh' = History([gh EXCEPT ![r].inserted = @ + 1])
  /\ UNCHANGED <<vouchers, ledgerUnique, now, adm>>

\* await update vouchers set total_redeemed = read where id; the result is not looked
\* at; then 500, "Gagal menyimpan redemption"
Rollback(r) ==
  /\ req[r].pc = "rollback"
  /\ req' = Respond(r, "PersistenceFailure")
  /\ \E fault \in BOOLEAN :
       LET v == req[r].voucher IN
         IF fault
           THEN /\ gh' = History([gh EXCEPT ![r].faults = @ \cup {"rollback"}])
                /\ UNCHANGED vouchers
           ELSE /\ vouchers' = RollbackWrite(vouchers, v.id, v.total_redeemed)
                /\ gh' = History([gh EXCEPT ![r].net =
                       @ + (CounterIn(vouchers', v.id) - CounterIn(vouchers, v.id))])
  /\ UNCHANGED <<ledger, ledgerUnique, now, adm>>

Next ==
  \/ \E r \in Reqs : Start(r)
  \/ \E r \in Reqs : FetchVoucher(r)
  \/ \E r \in Reqs : CheckExisting(r)
  \/ \E r \in Reqs : UpdateCounter(r)
  \/ \E r \in Reqs : InsertRedemption(r)
  \/ \E r \in Reqs : Rollback(r)

Spec == Init /\ [][Next]_vars

\* a storage call that some request awaits returns
StorageCallReturns ==
  \E r \in Reqs :
    \/ FetchVoucher(r) \/ CheckExisting(r) \/ UpdateCounter(r)
    \/ InsertRedemption(r) \/ Rollback(r)

\* while requests await storage calls, one of the calls eventually returns
StorageReturns == WF_vars(StorageCallReturns)

\* the catalog of the termination runs: an active voucher for one redemption that
\* expires after time 0, so that the requests compete for it
LiveSeeds ==
  SeedRows({<<"PERCENT", 50>>}, {0}, {1}, {<<Null, 0>>}, {TRUE})

InitLive ==
  /\ \E v \in LiveSeeds : vouchers = {v}
  /\ ledger = <<>>
  /\ ledgerUnique \in BOOLEAN
  /\ now = 0
  /\ req = [r \in Reqs |-> IdleReq]
  /\ gh = [r \in Reqs |-> IdleGh]
  /\ adm = [a \in Admins |-> IdleAdm]

\* a USER redeems the seed voucher
StartLive(r) == StartWith(r, {"USER"}, {"PROMO"}, {MaxOrder})

NextLive ==
  \/ \E r \in Reqs : StartLive(r)
  \/ StorageCallReturns

SpecLive == InitLive /\ [][NextLive]_vars /\ StorageReturns

\* ------------------------------------------------------------------ one request at a time
\* the catalog of the eligibility runs: every combination of activity, window,
\* limit and minimum, already redeemed k times by k different users
UserSeq == <<"u1", "u2">>

EligSeeds ==
  SeedRows({<<"PERCENT", 50>>}, {0, MaxOrder}, 1..MaxRedemptions,
           {<<1, Null>>, <<Null, 1>>, <<1, 1>>}, BOOLEAN)

SeedLedger(v, k) ==
  [i \in 1..k |-> RedemptionRow(v.id, UserSeq[i], MaxOrder, ComputeDiscount(v, MaxOrder),
                                MaxOrder - ComputeDiscount(v, MaxOrder))]

InitElig ==
  /\ \E v \in EligSeeds :
       \E k \in 0..(IF v.max_total_redemptions < Len(UserSeq)
                      THEN v.max_total_redemptions ELSE Len(UserSeq)) :
         /\ vouchers = {[v EXCEPT !.total_redeemed = k]}
         /\ ledger = SeedLedger(v, k)
  /\ ledgerUnique = FALSE   \* requests never overlap here: the constraint is never consulted
  /\ now = 0
  /\ req = [r \in Reqs |-> IdleReq]
  /\ gh = [r \in Reqs |-> IdleGh]
  /\ adm = [a \in Admins |-> IdleAdm]

\* any caller, any code, any body, once the previous request has returned
StartElig(r) ==
  /\ \A q \in Reqs : ~InFlight(req[q])
  /\ StartWith(r, Roles, Codes, 0..MaxOrder)

NextElig ==
  \/ \E r \in Reqs : StartElig(r)
  \/ \E r \in Reqs : FetchVoucher(r)
  \/ \E r \in Reqs : CheckExisting(r)
  \/ \E r \in Reqs : UpdateCounter(r)
  \/ \E r \in Reqs : InsertRedemption(r)
  \/ \E r \in Reqs : Rollback(r)

SpecElig == InitElig /\ [][NextElig]_vars

\* ------------------------------------------------------------------ discount runs
\* catalogs for the discount computation: a percentage with no cap, a cap of 0 and
\* a cap below the raw discount, and a fixed amount below and above the order
CalcSeeds ==
  {[v EXCEPT !.discount_type = d[1], !.discount_value = d[2], !.max_discount_amount = d[3]] :
     v \in SeedRows({<<"PERCENT", 50>>}, {0}, {Len(UserSeq)}, {<<Null, Null>>}, {TRUE}),
     d \in {<<"PERCENT", 30, Null>>, <<"PERCENT", 30, 0>>, <<"PERCENT", 30, 30000>>,
            <<"PERCENT", 100, 30000>>, <<"FIXED", 30000, Null>>, <<"FIXED", 30000, 0>>}}

CalcAmounts == {1, 7, 150000}

InitCalc ==
  /\ \E v \in CalcSeeds : vouchers = {v}
  /\ ledger = <<>>
  /\ ledgerUnique = FALSE
  /\ now = 0
  /\ req = [r \in Reqs |-> IdleReq]
  /\ gh = [r \in Reqs |-> IdleGh]
  /\ adm = [a \in Admins |-> IdleAdm]

\* a USER redeems the seed voucher for one of the amounts, one request at a time
StartCalc(r) ==
  /\ \A q \in Reqs : ~InFlight(req[q])
  /\ StartWith(r, {"USER"}, {"PROMO"}, CalcAmounts)

NextCalc ==
  \/ \E r \in Reqs : StartCalc(r)
  \/ \E r \in Reqs : FetchVoucher(r)
  \/ \E r \in Reqs : CheckExisting(r)
  \/ \E r \in Reqs : UpdateCounter(r)
  \/ \E r \in Reqs : InsertRedemption(r)
  \/ \E r \in Reqs : Rollback(r)

SpecCalc == InitCalc /\ [][NextCalc]_vars

\* ------------------------------------------------------------------ administration
\* a field of a request body, or the default when the body does not set it
Field(b, f, default) == IF f \in DOMAIN b THEN b[f] ELSE default

\* supabase.from("vouchers").select("*").eq("id", id).single()
GetById(tbl, id) == SingleVoucher({v \in tbl : v.id = id})

\* createVoucherSchema.safeParse, on the fields the model carries
ValidCreateBody(b) ==
  /\ {"code", "discount_type", "discount_value"} \subseteq DOMAIN b
  /\ b.discount_value > 0
  /\ Field(b, "min_order_amount", 0) >= 0
  /\ Field(b, "max_discount_amount", 0) >= 0
  /\ Field(b, "max_total_redemptions", 1) > 0

\* the fields updateSchema knows; z.object drops every other key of the body
UpdateFields ==
  {"discount_type", "discount_value", "min_order_amount", "max_discount_amount",
   "max_total_redemptions", "start_at", "end_at", "is_active"}

\* updateSchema.safeParse succeeds
ValidUpdateBody(b) ==
  /\ Field(b, "discount_value", 1) > 0
  /\ Field(b, "min_order_amount", 0) >= 0
  /\ Field(b, "max_discount_amount", 0) >= 0
  /\ Field(b, "max_total_redemptions", 1) > 0

\* (variant: the schema lets every key of the body through)
ParseUpdatePassthrough(b) == b

\* validation.data of updateSchema
ParseUpdate(b) == [f \in DOMAIN b \cap UpdateFields |-> b[f]]

\* discount_type === "PERCENT" && discount_value > 100
PercentAbove100(type, value) == type = "PERCENT" /\ value > 100

\* start_at && end_at && new Date(end_at) < new Date(start_at)
WindowInverted(startAt, endAt) == startAt # Null /\ endAt # Null /\ endAt < startAt

\* the row POST /vouchers inserts: the parsed body with the schema's defaults,
\* total_redeemed 0 and is_active true
CreateRow(b, id) ==
  [id |-> id, code |-> b.code, discount_type |-> b.discount_type,
   discount_value |-> b.discount_value,
   max_discount_amount |-> Field(b, "max_discount_amount", Null),
   min_order_amount |-> Field(b, "min_order_amount", 0),
   max_total_redemptions |-> Field(b, "max_total_redemptions", 1),
   total_redeemed |-> 0,
   start_at |-> Field(b, "start_at", Null), end_at |-> Field(b, "end_at", Null),
   is_active |-> TRUE]

\* the id the table generates for the row administration request a inserts
\* (the seed voucher has id 1)
NewId(a) == 1 + a

\* (variant: vouchers.code carries no uniqueness constraint)
CodeTakenNoConstraint(tbl, code) == FALSE

\* vouchers.code is unique: an insert of a code some row has is refused
CodeTaken(tbl, code) == \E v \in tbl : v.code = code

\* UPDATE vouchers SET <the fields of updateData> WHERE id = id
ApplyUpdate(tbl, id, updateData) ==
  {IF v.id = id
     THEN [f \in DOMAIN v |-> IF f \in DOMAIN updateData THEN updateData[f] ELSE v[f]]
     ELSE v : v \in tbl}

\* DELETE FROM vouchers WHERE id = id
DeleteRow(tbl, id) == {v \in tbl : v.id # id}

\* some row of voucher_redemptions references the voucher: the foreign key
\* refuses the delete
Referenced(led, id) == \E i \in 1..Len(led) : led[i].voucher_id = id

\* the handler returns
RespondAdm(a, resp) ==
  [adm EXCEPT ![a] = [IdleAdm EXCEPT !.pc = "done", !.role = adm[a].role,
                        !.response = resp]]

\* an administration request arrives: requireAdmin, then the body's schema and,
\* for POST /vouchers, the checks on the body alone
AdminStartWith(a, roles, calls) ==
  /\ adm[a].pc = "idle"
  /\ IF a = 1 THEN TRUE ELSE adm[a - 1].pc # "idle"   \* numbered in arrival order
  /\ \E role \in roles, c \in calls :
       LET b == c.body
           reject(resp) == [adm EXCEPT ![a] = [IdleAdm EXCEPT !.pc = "done", !.role = role,
                                                 !.response = resp]]
           go(pc, body) == [adm EXCEPT ![a] = [id |-> c.id, pc |-> pc, role |-> role,
                                                response |-> "", op |-> c.op, body |-> body]]
       IN  adm' = IF ~RequireAdmin(role) THEN reject("Forbidden")
                  ELSE IF c.op = "create"
                    THEN IF \/ ~ValidCreateBody(b)
                            \/ PercentAbove100(b.discount_type, b.discount_value)
                            \/ WindowInverted(Field(b, "start_at", Null), Field(b, "end_at", Null))
                           THEN reject("ValidationError")
                           ELSE go("c_check", b)
                  ELSE IF c.op = "update"
                    THEN IF ~ValidUpdateBody(b) THEN reject("ValidationError")
                         ELSE go("u_read", ParseUpdate(b))
                  ELSE go("d_read", NoBody)
  /\ UNCHANGED <<vouchers, ledger, ledgerUnique, now, req, gh>>

\* POST /vouchers: await select code where code = body.code; only data is taken
\* from the result, so a failed select reads as "no such code"
CreateCheck(a) ==
  /\ adm[a].pc = "c_check"
  /\ \E fault \in BOOLEAN :
       adm' = IF ~fault /\ GetByCode(vouchers, adm[a].body.code) # NoVoucher
                THEN RespondAdm(a, "Conflict")
                ELSE [adm EXCEPT ![a].pc = "c_insert"]
  /\ UNCHANGED <<vouchers, ledger, ledgerUnique, now, req, gh>>

\* POST /vouchers: await insert; 500 when the storage or the table refuses
CreateInsert(a) ==
  /\ adm[a].pc = "c_insert"
  /\ \E fault \in BOOLEAN :
       IF fault \/ CodeTaken(vouchers, adm[a].body.code)
         THEN /\ adm' = RespondAdm(a, "DatabaseError")
              /\ UNCHANGED vouchers
         ELSE /\ vouchers' = vouchers \cup {CreateRow(adm[a].body, NewId(a))}
              /\ adm' = RespondAdm(a, "Created")
  /\ UNCHANGED <<ledger, ledgerUnique, now, req, gh>>

\* PUT /vouchers/:id: await select * where id (404 when it fails or finds no row),
\* then the checks on the body merged with the row just read
UpdateRead(a) ==
  /\ adm[a].pc = "u_read"
  /\ \E fault \in BOOLEAN :
     LET existing == GetById(vouchers, adm[a].id)
         b == adm[a].body
     IN  adm' = IF fault \/ existing = NoVoucher THEN RespondAdm(a, "NotFound")
                ELSE IF \/ PercentAbove100(Field(b, "discount_type", existing.discount_type),
                                           Field(b, "discount_value", existing.discount_value))
                        \/ WindowInverted(Field(b, "start_at", existing.start_at),
                                          Field(b, "end_at", existing.end_at))
                  THEN RespondAdm(a, "ValidationError")
                ELSE [adm EXCEPT ![a].pc = "u_write"]
  /\ UNCHANGED <<vouchers, ledger, ledgerUnique, now, req, gh>>

\* PUT /vouchers/:id: await update(updateData) where id, select, single; 500 when
\* the storage fails or no row comes back
UpdateWrite(a) ==
  /\ adm[a].pc = "u_write"
  /\ \E fault \in BOOLEAN :
       IF fault \/ GetById(vouchers, adm[a].id) = NoVoucher
         THEN /\ adm' = RespondAdm(a, "DatabaseError")
              /\ UNCHANGED vouchers
         ELSE /\ vouchers' = ApplyUpdate(vouchers, adm[a].id, adm[a].body)
              /\ adm' = RespondAdm(a, "Updated")
  /\ UNCHANGED <<ledger, ledgerUnique, now, req, gh>>

\* DELETE /vouchers/:id: await select code, total_redeemed where id (404 when it
\* fails or finds no row)
DeleteRead(a) ==
  /\ adm[a].pc = "d_read"
  /\ \E fault \in BOOLEAN :
     LET existing == GetById(vouchers, adm[a].id)
     IN  adm' = IF fault \/ existing = NoVoucher THEN RespondAdm(a, "NotFound")
                ELSE IF existing.total_redeemed > 0 THEN RespondAdm(a, "InUse")
                ELSE [adm EXCEPT ![a].pc = "d_write"]
  /\ UNCHANGED <<vouchers, ledger, ledgerUnique, now, req, gh>>

\* (variant: the foreign key cascades, the delete takes the voucher's redemption
\* rows with it)
DeleteWriteCascades(a) ==
  /\ adm[a].pc = "d_write"
  /\ \E fault \in BOOLEAN :
       IF fault
         THEN /\ adm' = RespondAdm(a, "DatabaseError")
              /\ UNCHANGED <<vouchers, ledger>>
         ELSE /\ vouchers' = DeleteRow(vouchers, adm[a].id)
              /\ ledger' = SelectSeq(ledger, LAMBDA row : row.voucher_id # adm[a].id)
              /\ adm' = RespondAdm(a, "Deleted")
  /\ UNCHANGED <<ledgerUnique, now, req, gh>>

\* DELETE /vouchers/:id: await delete where id; 500 when the storage or the
\* foreign key of voucher_redemptions refuses
DeleteWrite(a) ==
  /\ adm[a].pc = "d_write"
  /\ \E fault \in BOOLEAN :
       IF fault \/ Referenced(ledger, adm[a].id)
         THEN /\ adm' = RespondAdm(a, "DatabaseError")
              /\ UNCHANGED vouchers
         ELSE /\ vouchers' = DeleteRow(vouchers, adm[a].id)
              /\ adm' = RespondAdm(a, "Deleted")
  /\ UNCHANGED <<ledger, ledgerUnique, now, req, gh>>

\* ------------------------------------------------------------------ administration runs
\* bodies of POST /vouchers: a code in use and a free one; a valid percentage, one
\* above 100, one the schema refuses, and a window that ends before it starts
CreateBodies ==
  {[code |-> c, discount_type |-> "PERCENT", discount_value |-> d] :
     c \in {"PROMO", "EXTRA"}, d \in {50, 150, 0}}
  \cup {[code |-> "EXTRA", discount_type |-> "FIXED", discount_value |-> 50,
         start_at |-> MaxTime, end_at |-> 0]}

\* bodies of PUT /vouchers/:id: one field each
UpdateBodies ==
  {[discount_type |-> "PERCENT"], [discount_value |-> 150],
   [max_total_redemptions |-> 1], [max_total_redemptions |-> 0],
   [start_at |-> MaxTime], [end_at |-> 0], [is_active |-> FALSE]}

\* an id no voucher has
MissingId == 0

TargetIds(tbl) == {v.id : v \in tbl} \cup {MissingId}

\* the calls with these bodies on these ids
Calls(creates, updates, ids) ==
  {[id |-> Null, op |-> "create", body |-> b] : b \in creates}
  \cup {[id |-> i, op |-> "update", body |-> b] : i \in ids, b \in updates}
  \cup {[id |-> i, op |-> "delete", body |-> NoBody] : i \in ids}

AdminCalls(tbl) == Calls(CreateBodies, UpdateBodies, TargetIds(tbl))

\* the catalog of the administration runs: a fixed or a percentage voucher with no
\* window, already redeemed k times by k different users
AdminSeeds ==
  SeedRows({<<"FIXED", 50>>, <<"PERCENT", 50>>}, {0}, 1..MaxRedemptions,
           {<<Null, Null>>}, {TRUE})

InitAdmin ==
  /\ \E v \in AdminSeeds :
       \E k \in 0..(IF v.max_total_redemptions < Len(UserSeq)
                      THEN v.max_total_redemptions ELSE Len(UserSeq)) :
         /\ vouchers = {[v EXCEPT !.total_redeemed = k]}
         /\ ledger = SeedLedger(v, k)
  /\ ledgerUnique = FALSE
  /\ now = 0
  /\ req = [r \in Reqs |-> IdleReq]
  /\ gh = [r \in Reqs |-> IdleGh]
  /\ adm = [a \in Admins |-> IdleAdm]

\* any caller, any of the calls
AdminStart(a) == AdminStartWith(a, Roles, AdminCalls(vouchers))

NextAdmin ==
  \/ \E a \in Admins : AdminStart(a)
  \/ \E a \in Admins : CreateCheck(a)
  \/ \E a \in Admins : CreateInsert(a)
  \/ \E a \in Admins : UpdateRead(a)
  \/ \E a \in Admins : UpdateWrite(a)
  \/ \E a \in Admins : DeleteRead(a)
  \/ \E a \in Admins : DeleteWrite(a)

SpecAdmin == InitAdmin /\ [][NextAdmin]_vars

\* ------------------------------------------------------------------ redemption against administration
\* the catalog of the mixed runs: a fixed-amount voucher with no window, fresh or
\* redeemed once
MixedSeeds ==
  SeedRows({<<"FIXED", 50>>}, {0}, {MaxRedemptions}, {<<Null, Null>>}, {TRUE})

InitMixed ==
  /\ \E v \in MixedSeeds : \E k \in {0, 1} :
       /\ vouchers = {[v EXCEPT !.total_redeemed = k]}
       /\ ledger = SeedLedger(v, k)
  /\ ledgerUnique = FALSE   \* one redemption: the constraint is never consulted
  /\ now = 0
  /\ req = [r \in Reqs |-> IdleReq]
  /\ gh = [r \in Reqs |-> IdleGh]
  /\ adm = [a \in Admins |-> IdleAdm]

\* any caller redeems the seed voucher; one redemption runs against the
\* administration requests
StartMixed(r) ==
  /\ \A q \in Reqs : req[q].pc = "idle"
  /\ StartWith(r, Roles, {"PROMO"}, {MaxOrder})

\* any caller creates a second voucher, or changes the discount of the seed
\* voucher, or deletes it
MixedCalls ==
  Calls({[code |-> "EXTRA", discount_type |-> "PERCENT", discount_value |-> 50]},
        {[discount_type |-> "PERCENT"], [discount_value |-> 150]},
        {v.id : v \in MixedSeeds})

AdminStartMixed(a) == AdminStartWith(a, Roles, MixedCalls)

NextMixed ==
  \/ \E r \in Reqs : StartMixed(r)
  \/ \E r \in Reqs : FetchVoucher(r)
  \/ \E r \in Reqs : CheckExisting(r)
  \/ \E r \in Reqs : UpdateCounter(r)
  \/ \E r \in Reqs : InsertRedemption(r)
  \/ \E r \in Reqs : Rollback(r)
  \/ \E a \in Admins : AdminStartMixed(a)
  \/ \E a \in Admins : CreateCheck(a)
  \/ \E a \in Admins : CreateInsert(a)
  \/ \E a \in Admins : UpdateRead(a)
  \/ \E a \in Admins : UpdateWrite(a)
  \/ \E a \in Admins : DeleteRead(a)
  \/ \E a \in Admins : DeleteWrite(a)

SpecMixed == InitMixed /\ [][NextMixed]_vars

\* ------------------------------------------------------------------ redemption against updates
\* bodies of PUT /vouchers/:id: one that switches the voucher off and also names
\* id, code and total_redeemed, and one that lowers the limit to 1
RaceBodies ==
  {[id |-> MissingId, code |-> "EXTRA", total_redeemed |-> 0, is_active |-> FALSE],
   [max_total_redemptions |-> 1]}

\* an ADMIN updates the seed voucher
AdminStartUpdate(a) ==
  AdminStartWith(a, {"ADMIN"},
                 {[id |-> v.id, op |-> "update", body |-> b] : v \in MixedSeeds, b \in RaceBodies})

NextUpdate ==
  \/ \E r \in Reqs : StartMixed(r)
  \/ \E r \in Reqs : FetchVoucher(r)
  \/ \E r \in Reqs : CheckExisting(r)
  \/ \E r \in Reqs : UpdateCounter(r)
  \/ \E r \in Reqs : InsertRedemption(r)
  \/ \E r \in Reqs : Rollback(r)
  \/ \E a \in Admins : AdminStartUpdate(a)
  \/ \E a \in Admins : UpdateRead(a)
  \/ \E a \in Admins : UpdateWrite(a)

SpecUpdate == InitMixed /\ [][NextUpdate]_vars

\* ------------------------------------------------------------------ detail view
\* GET /vouchers/:code on row v at time t: the flags added to the row.  A flag of
\* an absent bound is null (startAt && ...), which counts as false in is_available
DetailView(v, t) ==
  LET isNotStarted == IF v.start_at = Null THEN Null ELSE t < v.start_at
      isExpired == IF v.end_at = Null THEN Null ELSE t > v.end_at
      notStarted == IF v.start_at = Null THEN FALSE ELSE isNotStarted
      expired == IF v.end_at = Null THEN FALSE ELSE isExpired
  IN [is_not_started |-> isNotStarted,
      is_expired |-> isExpired,
      is_available |-> v.is_active /\ ~notStarted /\ ~expired
                         /\ v.total_redeemed < v.max_total_redemptions,
      remaining_redemptions |-> v.max_total_redemptions - v.total_redeemed]

\* ------------------------------------------------------------------ repeated redemption
\* the ledger after k requests of one user were granted the voucher: one row when
\* they ran in turn, two when they overlapped (the table carrying no constraint)
DupLedger(v, k) ==
  [i \in 1..k |-> RedemptionRow(v.id, UserSeq[1], MaxOrder, ComputeDiscount(v, MaxOrder),
                                MaxOrder - ComputeDiscount(v, MaxOrder))]

\* the catalog of these runs: an active voucher with no window and room left
DupSeeds ==
  SeedRows({<<"PERCENT", 50>>}, {0}, {MaxRedemptions + 1}, {<<Null, Null>>}, {TRUE})

InitDup ==
  /\ \E v \in DupSeeds : \E k \in {1, 2} :
       /\ vouchers = {[v EXCEPT !.total_redeemed = 1]}
       /\ ledger = DupLedger(v, k)
  /\ ledgerUnique = FALSE
  /\ now = 0
  /\ req = [r \in Reqs |-> IdleReq]
  /\ gh = [r \in Reqs |-> IdleGh]
  /\ adm = [a \in Admins |-> IdleAdm]

\* a USER redeems the seed voucher, once the previous request has returned
StartDup(r) ==
  /\ \A q \in Reqs : ~InFlight(req[q])
  /\ StartWith(r, {"USER"}, {"PROMO"}, {MaxOrder})

NextDup ==
  \/ \E r \in Reqs : StartDup(r)
  \/ \E r \in Reqs : FetchVoucher(r)
  \/ \E r \in Reqs : CheckExisting(r)
  \/ \E r \in Reqs : UpdateCounter(r)
  \/ \E r \in Reqs : InsertRedemption(r)
  \/ \E r \in Reqs : Rollback(r)

SpecDup == InitDup /\ [][NextDup]_vars

\* ------------------------------------------------------------------ vocabulary of the claims
Done(r) == req[r].pc = "done"
Returned(r, resp) == Done(r) /\ req[r].response = resp
Quiescent == \A r \in Reqs : ~InFlight(req[r])

\* no storage call of the request returned an error of the storage's own making
NoStorageFault(r) == gh[r].faults \cap {"update", "insert", "rollback"} = {}

\* the request's checks all passed and its conditional increment was issued
Committing(r) == gh[r].matched # Null

SuccessRows(vid) ==
  {i \in 1..Len(ledger) : ledger[i].voucher_id = vid /\ ledger[i].status = "SUCCESS"}

\* the step in which request r runs its compensating write and returns
RollbackStep(r) == req[r].pc = "rollback" /\ req'[r].pc = "done"

\* ------------------------------------------------------------------ C1
\* C1: with the voucher's definition left alone by administration, every reachable
\* state of any interleaving of redemption requests, compensating ones included,
\* has 0 <= total_redeemed <= max_total_redemptions.
C1_CapacityInvariant ==
  \A v \in vouchers : 0 <= v.total_redeemed /\ v.total_redeemed <= v.max_total_redemptions

\* two overlapping requests, one compensated and one committed, and the voucher is full
C1_Witness ==
  \E v \in vouchers, r, q \in Reqs :
    /\ r # q /\ gh[r].overlap /\ gh[q].overlap
    /\ Returned(r, "PersistenceFailure") /\ Returned(q, "Success")
    /\ v.total_redeemed = v.max_total_redemptions

\* ------------------------------------------------------------------ C2
\* C2: against a voucher with max_total_redemptions = 1, requests by distinct users
\* never both return success and the ledger never holds two SUCCESS rows of distinct
\* users; once all have returned, none hit by a storage fault and each either
\* succeeding or failing with Exhausted or ConcurrentConflict, exactly one succeeded
\* and the ledger holds exactly one SUCCESS row.
C2_ExactlyOneWinner ==
  \A v \in vouchers :
    v.max_total_redemptions = 1 =>
      /\ \A r, q \in Reqs :
           (r # q /\ req[r].user # req[q].user /\ Returned(r, "Success"))
             => ~Returned(q, "Success")
      /\ \A i, j \in SuccessRows(v.id) :
           ledger[i].user_id # ledger[j].user_id => i = j
      /\ ( /\ \A r \in Reqs : Done(r) /\ NoStorageFault(r)
           /\ \A r, q \in Reqs : r # q => req[r].user # req[q].user
           /\ \A r \in Reqs : req[r].response \in {"Success", "Exhausted", "ConcurrentConflict"} )
         => /\ Cardinality({r \in Reqs : Returned(r, "Success")}) = 1
            /\ Cardinality(SuccessRows(v.id)) = 1

\* ------------------------------------------------------------------ C3
\* C3: the ledger holds at most one SUCCESS row per (voucher_id, user_id); and when
\* a user's request succeeded, any other request of that user that also got as far
\* as the commit, with no storage fault, reported AlreadyRedeemed.
C3_OneSuccessPerUser ==
  /\ \A i, j \in 1..Len(ledger) :
       ( /\ ledger[i].voucher_id = ledger[j].voucher_id
         /\ ledger[i].user_id = ledger[j].user_id
         /\ ledger[i].status = "SUCCESS" /\ ledger[j].status = "SUCCESS" ) => i = j
  /\ \A r, q \in Reqs :
       ( /\ r # q /\ req[r].user = req[q].user
         /\ Returned(r, "Success") /\ Done(q)
         /\ Committing(q) /\ NoStorageFault(q) )
       => req[q].response = "AlreadyRedeemed"

\* ------------------------------------------------------------------ C4
\* C4: when no request is in flight (and no storage call failed on its own), each
\* voucher's total_redeemed equals the number of SUCCESS rows that reference it.
C4_CounterMatchesLedger ==
  (Quiescent /\ \A r \in Reqs : NoStorageFault(r))
    => \A v \in vouchers : v.total_redeemed = Cardinality(SuccessRows(v.id))

\* ------------------------------------------------------------------ C5
\* C5: a request that has returned (its compensating write, if any, not lost) either
\* returned success having raised total_redeemed by 1 and added one ledger row, or
\* returned an error having changed neither the counter nor the ledger.
C5_AllOrNothing ==
  \A r \in Reqs :
    (Done(r) /\ "rollback" \notin gh[r].faults) =>
      \/ req[r].response = "Success" /\ gh[r].net = 1 /\ gh[r].inserted = 1
      \/ req[r].response # "Success" /\ gh[r].net = 0 /\ gh[r].inserted = 0

\* ------------------------------------------------------------------ C6
\* C6: a request that ran with no other request in flight, whose increment matched
\* the voucher and whose ledger insert then failed, leaves total_redeemed at the
\* value it read and the ledger as it found it, and returns PersistenceFailure
\* (the compensating write itself not being lost).
C6_CompensationRestores ==
  [][\A r \in Reqs :
       ( /\ RollbackStep(r)
         /\ gh[r].matched = 1
         /\ ~gh'[r].overlap
         /\ "rollback" \notin gh'[r].faults )
       => /\ CounterIn(vouchers', req[r].voucher.id) = gh[r].preCount
          /\ Len(ledger') = gh[r].preLen
          /\ req'[r].response = "PersistenceFailure"]_vars

\* a lone request was compensated: the counter is back at the value it read
C6_Witness ==
  \E r \in Reqs :
    /\ Returned(r, "PersistenceFailure")
    /\ gh[r].matched = 1 /\ ~gh[r].overlap
    /\ gh[r].faults = {"insert"}
    /\ \A q \in Reqs \ {r} : req[q].pc = "idle"
    /\ \A v \in vouchers : v.total_redeemed = 0
    /\ ledger = <<>>

\* ------------------------------------------------------------------ C7
\* C7: when request r, whose own increment matched, compensates after another
\* request has committed (increment matched, ledger row stored) while r was in
\* flight, r's compensating write lowers total_redeemed by no more than r's own
\* increment.
C7_CompensationDoesNotClobber ==
  [][\A r \in Reqs :
       ( /\ RollbackStep(r)
         /\ gh[r].matched = 1
         /\ \E q \in Reqs \ {r} :
              Returned(q, "Success") /\ gh[q].matched = 1 /\ gh[q].overlap )
       => CounterIn(vouchers', req[r].voucher.id)
            >= CounterIn(vouchers, req[r].voucher.id) - gh[r].matched]_vars

\* ------------------------------------------------------------------ C8
\* C8: a request adds its ledger row, or returns success, only if its conditional
\* increment matched the voucher row (the stored counter equalled the value read).
C8_InsertOnlyAfterIncrement ==
  \A r \in Reqs :
    (gh[r].inserted > 0 \/ Returned(r, "Success")) => gh[r].matched = 1

\* ------------------------------------------------------------------ C9
\* C9: no request fetches the voucher more than 3 times; a request whose conditional
\* increment matched nothing on its last attempt has made 3 attempts, returns
\* ConcurrentConflict and has written nothing.
C9_BoundedRetry ==
  \A r \in Reqs :
    /\ gh[r].fetches <= 3
    /\ (Done(r) /\ gh[r].matched = 0) =>
         /\ gh[r].fetches = 3
         /\ req[r].response = "ConcurrentConflict"
         /\ gh[r].inserted = 0 /\ gh[r].net = 0

\* ------------------------------------------------------------------ C10
\* the order of the checks as the specification lists it
EligibilityOrder ==
  <<"NotFound", "Inactive", "NotStarted", "Expired", "Exhausted", "BelowMinimum",
    "AlreadyRedeemed">>

\* whether a check fails for a request by uid with this code and amount at time t
CheckFails(check, code, uid, amount, t) ==
  LET found == \E v \in vouchers : v.code = code
      v == IF found THEN CHOOSE w \in vouchers : w.code = code ELSE NoVoucher
  IN  CASE check = "NotFound" -> ~found
        [] check = "Inactive" -> found /\ v.is_active = FALSE
        [] check = "NotStarted" -> found /\ v.start_at # Null /\ t < v.start_at
        [] check = "Expired" -> found /\ v.end_at # Null /\ t > v.end_at
        [] check = "Exhausted" -> found /\ v.total_redeemed >= v.max_total_redemptions
        [] check = "BelowMinimum" -> found /\ amount < v.min_order_amount
        [] check = "AlreadyRedeemed" ->
             found /\ \E i \in SuccessRows(v.id) : ledger[i].user_id = uid

FirstFailing(code, uid, amount, t) ==
  LET failing == {i \in 1..Len(EligibilityOrder) :
                    CheckFails(EligibilityOrder[i], code, uid, amount, t)}
  IN  IF failing = {} THEN "OK"
      ELSE EligibilityOrder[CHOOSE i \in failing : \A j \in failing : i <= j]

\* C10: with one request running at a time, the step in which a request fetches
\* the voucher or looks up its own redemption returns the first failing check in
\* the order NotFound, Inactive, NotStarted, Expired, Exhausted, BelowMinimum,
\* AlreadyRedeemed, evaluated on the stored voucher, the clock and the ledger, and
\* lets the request go on only when no earlier check fails.
C10_EligibilityOrder ==
  [][\A r \in Reqs :
       (req[r].pc \in {"fetch", "lookup"} /\ req'[r] # req[r]) =>
         LET ref == FirstFailing(req[r].code, req[r].user, req[r].order_amount, now')
         IN  IF ref = "OK" THEN req'[r].pc \in {"lookup", "update"}
             ELSE IF ref = "AlreadyRedeemed"
               THEN \/ req[r].pc = "fetch" /\ req'[r].pc = "lookup"
                    \/ req'[r].pc = "done" /\ req'[r].response = "AlreadyRedeemed"
             ELSE req'[r].pc = "done" /\ req'[r].response = ref]_vars

\* ------------------------------------------------------------------ C11
\* the responses of the eligibility checks
EligibilityErrors == {EligibilityOrder[i] : i \in 1..Len(EligibilityOrder)}

\* C11: the step in which a request is rejected by an eligibility check writes
\* nothing, and the request has written nothing before it: vouchers and ledger are
\* unchanged, it issued no increment and added no row. (A voucher with
\* max_total_redemptions = 1 and total_redeemed = 1 answers Exhausted and stays at 1.)
C11_RejectedWritesNothing ==
  [][\A r \in Reqs :
       ( /\ InFlight(req[r]) /\ req'[r].pc = "done"
         /\ req'[r].response \in EligibilityErrors )
       => /\ vouchers' = vouchers /\ ledger' = ledger
          /\ gh'[r].matched = Null /\ gh'[r].net = 0 /\ gh'[r].inserted = 0]_vars

\* a full voucher with limit 1 answered Exhausted and still counts 1
C11_Witness ==
  \E r \in Reqs, v \in vouchers :
    /\ Returned(r, "Exhausted") /\ gh[r].fetches = 1
    /\ v.max_total_redemptions = 1 /\ v.total_redeemed = 1
    /\ Len(ledger) = 1

\* ------------------------------------------------------------------ C12
\* the discount as the specification defines it: the percentage is capped whenever
\* max_discount_amount is set, 0 included; the fixed amount never exceeds the order
RefDiscount(v, amount) ==
  IF v.discount_type = "PERCENT"
    THEN LET d == (amount * v.discount_value) \div 100
         IN  IF v.max_discount_amount # Null /\ d > v.max_discount_amount
               THEN v.max_discount_amount ELSE d
    ELSE IF v.discount_value < amount THEN v.discount_value ELSE amount

\* C12: every stored redemption carries the reference discount of its voucher and
\* order_amount, and final_amount = order_amount - discount_amount (PERCENT 30 with
\* cap 30000 on an order of 150000 gives 30000 and 120000).
C12_DiscountMatchesReference ==
  \A i \in 1..Len(ledger) : \A v \in vouchers :
    v.id = ledger[i].voucher_id =>
      /\ ledger[i].discount_amount = RefDiscount(v, ledger[i].order_amount)
      /\ ledger[i].final_amount = ledger[i].order_amount - ledger[i].discount_amount

\* ------------------------------------------------------------------ C13
\* C13: every stored redemption, after any interleaving of create, update and
\* redeem requests, has 0 <= discount_amount <= order_amount and
\* final_amount = order_amount - discount_amount >= 0.
C13_RedemptionAmountsSound ==
  \A i \in 1..Len(ledger) :
    /\ 0 <= ledger[i].discount_amount
    /\ ledger[i].discount_amount <= ledger[i].order_amount
    /\ ledger[i].final_amount = ledger[i].order_amount - ledger[i].discount_amount
    /\ ledger[i].final_amount >= 0

\* ------------------------------------------------------------------ C14
\* C14: after any interleaving of create and update requests, two updates of the
\* same voucher running concurrently included, every voucher with discount_type
\* PERCENT has discount_value <= 100 and every voucher with both start_at and
\* end_at set has end_at >= start_at.
C14_StaticInvariants ==
  \A v \in vouchers :
    /\ v.discount_type = "PERCENT" => v.discount_value <= 100
    /\ (v.start_at # Null /\ v.end_at # Null) => v.end_at >= v.start_at

\* ------------------------------------------------------------------ C15
\* C15: no two vouchers ever share a code, two concurrent creates of the same code
\* included; a create whose code some voucher has leaves the catalog as it was at
\* its check and at its insert: the check rejects it, or passes it on to the insert
\* when its select failed, and the insert rejects it.
C15_CodesUnique ==
  [][ /\ \A v, w \in vouchers' : v.code = w.code => v = w
      /\ \A a \in Admins :
           ( /\ adm[a].pc \in {"c_check", "c_insert"} /\ adm'[a] # adm[a]
             /\ \E v \in vouchers : v.code = adm[a].body.code )
           => /\ vouchers' = vouchers
              /\ \/ adm'[a].pc = "done" /\ adm'[a].response = "Conflict"
                                         /\ adm[a].pc = "c_check"
                 \/ adm'[a].pc = "done" /\ adm'[a].response = "DatabaseError"
                                         /\ adm[a].pc = "c_insert"
                 \/ adm'[a].pc = "c_insert" /\ adm[a].pc = "c_check" ]_vars

\* two creates of the same code both passed the check; one has inserted its row
\* and the other is about to insert
C15_Witness ==
  \E a, b \in Admins :
    /\ a # b
    /\ adm[a].pc = "done" /\ adm[a].response = "Created"
    /\ adm[b].pc = "c_insert"
    /\ \E v \in vouchers : v.code = adm[b].body.code /\ v.id = NewId(a)

\* ------------------------------------------------------------------ C16
\* C16: under any interleaving of delete and redemption requests, a delete that
\* reads total_redeemed > 0 is rejected and changes nothing, a voucher row is
\* removed only while its total_redeemed is 0, and every ledger row references a
\* voucher that exists.
C16_DeleteOnlyUnused ==
  [][ /\ \A a \in Admins :
           ( /\ adm[a].pc = "d_read" /\ adm'[a] # adm[a]
             /\ CounterIn(vouchers, adm[a].id) > 0 )
           => /\ adm'[a].pc = "done" /\ adm'[a].response = "InUse"
              /\ vouchers' = vouchers
      /\ \A v \in vouchers :
           (\A w \in vouchers' : w.id # v.id) => v.total_redeemed = 0
      /\ \A i \in 1..Len(ledger') :
           \E v \in vouchers' : v.id = ledger'[i].voucher_id ]_vars

\* ------------------------------------------------------------------ C17
\* C17: an update whose max_total_redemptions is below the voucher's current
\* total_redeemed is rejected and leaves the voucher unchanged, so that no voucher
\* reaches total_redeemed > max_total_redemptions.
C17_UpdateKeepsCapacity ==
  [][ /\ \A a \in Admins :
           ( /\ adm[a].pc = "u_write" /\ adm'[a] # adm[a]
             /\ "max_total_redemptions" \in DOMAIN adm[a].body
             /\ \E v \in vouchers : /\ v.id = adm[a].id
                                    /\ adm[a].body.max_total_redemptions < v.total_redeemed )
           => /\ vouchers' = vouchers
              /\ adm'[a].response # "Updated"
      /\ \A v \in vouchers' : v.total_redeemed <= v.max_total_redemptions ]_vars

\* ------------------------------------------------------------------ C18
\* C18: a request whose ledger insert was refused by the uniqueness constraint on
\* (voucher_id, user_id) returns AlreadyRedeemed, and its compensating write (when
\* not lost) puts total_redeemed back at the value its increment started from.
C18_UniqueViolationIsAlreadyRedeemed ==
  [][\A r \in Reqs :
       (RollbackStep(r) /\ "unique" \in gh[r].faults)
       => /\ req'[r].response = "AlreadyRedeemed"
          /\ (gh[r].matched = 1 /\ "rollback" \notin gh'[r].faults)
               => CounterIn(vouchers', req[r].voucher.id) = gh[r].preCount]_vars

\* ------------------------------------------------------------------ C19
\* C19: a redemption request by a caller whose role is not USER, and a create,
\* update or delete request by a caller whose role is not ADMIN, returns Forbidden
\* in the step in which it arrives, with nothing read and vouchers and ledger
\* unchanged; only a USER is ever inside the redemption handler and only an ADMIN
\* inside an administration handler.
C19_RoleGating ==
  [][ /\ \A r \in Reqs :
           /\ ( /\ req[r].pc = "idle" /\ req'[r].pc # "idle"
                /\ req'[r].role # "USER" )
              => /\ req'[r].pc = "done" /\ req'[r].response = "Forbidden"
                 /\ gh'[r].fetches = 0
                 /\ vouchers' = vouchers /\ ledger' = ledger
           /\ InFlight(req'[r]) => req'[r].role = "USER"
      /\ \A a \in Admins :
           /\ ( /\ adm[a].pc = "idle" /\ adm'[a].pc # "idle"
                /\ adm'[a].role # "ADMIN" )
              => /\ adm'[a].pc = "done" /\ adm'[a].response = "Forbidden"
                 /\ vouchers' = vouchers /\ ledger' = ledger
           /\ InFlight(adm'[a]) => adm'[a].role = "ADMIN" ]_vars

\* an ADMIN was refused a redemption and a USER an administration request, and
\* the catalog and the ledger are as they were seeded
C19_Witness ==
  \E r \in Reqs, a \in Admins :
    /\ Returned(r, "Forbidden") /\ req[r].role = "ADMIN"
    /\ adm[a].pc = "done" /\ adm[a].response = "Forbidden" /\ adm[a].role = "USER"
    /\ vouchers \in SUBSET MixedSeeds /\ vouchers # {}
    /\ ledger = <<>>
    /\ \A q \in Reqs \ {r} : req[q].pc = "idle"
    /\ \A b \in Admins \ {a} : adm[b].pc = "idle"

\* ------------------------------------------------------------------ C20
\* C20: no operation changes or removes a stored redemption: after every step the
\* ledger holds every row it held before, at the same place with the same fields.
C20_LedgerAppendOnly ==
  [][ /\ Len(ledger') >= Len(ledger)
      /\ \A i \in 1..Len(ledger) : ledger'[i] = ledger[i] ]_vars

\* two redemptions granted while the voucher was a fixed amount still stand as
\* they were written after the voucher has been turned into a percentage
C20_Witness ==
  \E v \in vouchers :
    /\ v.discount_type = "PERCENT" /\ v.discount_value = 50
    /\ Len(ledger) = 2
    /\ \A i \in 1..Len(ledger) :
         ledger[i].voucher_id = v.id /\ ledger[i].discount_amount = ledger[i].order_amount
    /\ \E a \in Admins : adm[a].pc = "done" /\ adm[a].response = "Updated"

\* ------------------------------------------------------------------ C21
\* C21: the write of an update request, whatever keys its body carried, leaves
\* every voucher's id, code and total_redeemed as they were; total_redeemed of a
\* voucher changes only in the step of a redemption request's counter increment
\* or compensating write.
C21_UpdateFrame ==
  [][ /\ \A a \in Admins :
           (adm[a].pc = "u_write" /\ adm'[a] # adm[a])
           => /\ Cardinality(vouchers') = Cardinality(vouchers)
              /\ \A v \in vouchers : \E w \in vouchers' :
                   /\ w.id = v.id /\ w.code = v.code
                   /\ w.total_redeemed = v.total_redeemed
      /\ (\E v \in vouchers, w \in vouchers' :
            v.id = w.id /\ v.total_redeemed # w.total_redeemed)
         => \E r \in Reqs : req[r].pc \in {"update", "rollback"} /\ req'[r] # req[r] ]_vars

\* an update whose body named id, code and total_redeemed was applied: the voucher
\* is switched off and still has its id, its code and its one redemption
C21_Witness ==
  \E a \in Admins, v \in vouchers :
    /\ adm[a].pc = "done" /\ adm[a].response = "Updated"
    /\ ~v.is_active
    /\ v.id \in {w.id : w \in MixedSeeds} /\ v.code = "PROMO"
    /\ v.total_redeemed = 1 /\ Len(ledger) = 1

\* ------------------------------------------------------------------ C26
\* C26: under any interleaving of update and redemption requests, in the step in
\* which a request's counter increment takes effect the stored voucher is active
\* and its stored max_total_redemptions is greater than the total_redeemed being
\* replaced.
C26_NoCommitOnDeactivated ==
  [][\A r \in Reqs :
       (req[r].pc = "update" /\ req'[r].pc = "insert" /\ gh'[r].matched = 1)
       => \A v \in vouchers :
            v.id = req[r].voucher.id
              => v.is_active /\ v.max_total_redemptions > v.total_redeemed]_vars

\* ------------------------------------------------------------------ C22
\* the responses of the redemption engine
Taxonomy == EligibilityErrors \cup {"Success", "ConcurrentConflict", "PersistenceFailure"}

\* C22: with every storage call eventually returning, every redemption request
\* that has arrived eventually returns, whatever the other requests do, with
\* success or an error of the taxonomy, and its response then never changes.
C22_Termination ==
  /\ \A r \in Reqs : InFlight(req[r]) ~> (Done(r) /\ req[r].response \in Taxonomy)
  /\ [][\A r \in Reqs : Done(r) => req'[r] = req[r]]_vars

\* two requests that overlapped have both returned, one of them after its
\* increment matched no row
C22_Witness ==
  \E r, q \in Reqs :
    /\ r # q /\ Done(r) /\ Done(q)
    /\ gh[r].overlap /\ gh[q].overlap
    /\ gh[q].matched = 0
    /\ req[r].response \in Taxonomy /\ req[q].response \in Taxonomy

\* ------------------------------------------------------------------ C23
\* the step in which request r issues its conditional increment
IncrementStep(r) == req[r].pc = "update" /\ req'[r].pc = "insert"

\* some request has run its compensating write
Compensated ==
  \E q \in Reqs : Returned(q, "PersistenceFailure") /\ "rollback" \notin gh[q].faults

\* C23: once a request's conditional increment on a voucher has taken effect, the
\* conditional increment of every other request that read the voucher before it
\* matches no row and changes nothing.
C23_IncrementsOrdered ==
  [][\A r \in Reqs :
       (IncrementStep(r) /\ gh[r].stale)
       => gh'[r].matched = 0 /\ vouchers' = vouchers]_vars

\* C23, amended: the same, as long as no compensating write has put the counter
\* back: until then the increment of a request that read the voucher before
\* another request's increment took effect matches no row and changes nothing.
C23_IncrementsOrderedUntilCompensated ==
  [][\A r \in Reqs :
       (IncrementStep(r) /\ gh[r].stale /\ ~Compensated)
       => gh'[r].matched = 0 /\ vouchers' = vouchers]_vars

\* two requests read the same counter; the increment of one took effect and that
\* of the other then matched no row, with no compensating write so far
C23_Witness ==
  \E r, q \in Reqs :
    /\ r # q /\ ~Compensated
    /\ gh[q].matched = 1 /\ gh[r].matched = 0
    /\ req[r].pc = "insert"
    /\ \A v \in vouchers : v.total_redeemed = req[r].voucher.total_redeemed + 1

\* ------------------------------------------------------------------ C24
\* C24: a request whose compensating write failed after its ledger insert failed
\* has not returned success, and the failure of the compensating write has been
\* written to the log.
C24_CompensationFailureLogged ==
  \A r \in Reqs :
    (Done(r) /\ "rollback" \in gh[r].faults)
      => /\ req[r].response # "Success"
         /\ "rollback" \in gh[r].logged

\* ------------------------------------------------------------------ C25
\* C25: the lookup of a request by a user who holds at least one SUCCESS row for
\* the voucher, however many rows the ledger holds for the pair, ends the request
\* with AlreadyRedeemed, and the request writes nothing.
C25_AlreadyRedeemedWithManyRows ==
  [][\A r \in Reqs :
       ( /\ req[r].pc = "lookup" /\ req'[r] # req[r]
         /\ \E i \in SuccessRows(req[r].voucher.id) : ledger[i].user_id = req[r].user )
       => /\ req'[r].pc = "done" /\ req'[r].response = "AlreadyRedeemed"
          /\ vouchers' = vouchers /\ ledger' = ledger]_vars

\* ------------------------------------------------------------------ C27
\* C27: for every stored voucher and every time, the detail view reports
\* is_available exactly when the redemption validator run on the same row and
\* time passes the Inactive, NotStarted, Expired and Exhausted checks, and its
\* remaining_redemptions is max_total_redemptions - total_redeemed and not negative.
C27_DetailViewAgrees ==
  \A v \in vouchers : \A t \in 0..MaxTime :
    /\ DetailView(v, t).is_available
         <=> ValidateVoucher(v, t, MaxOrder) \in {"OK", "BelowMinimum"}
    /\ DetailView(v, t).remaining_redemptions
         = v.max_total_redemptions - v.total_redeemed
    /\ DetailView(v, t).remaining_redemptions >= 0

====
